---- MODULE Spec2Model ----
(***************************************************************************)
(* The thought store of quirk (src/src/CBTListScreen.tsx, lines 389-552):  *)
(* saveExercise, deleteExercise, restoreExercise and getExercises over the *)
(* AsyncStorage key-value primitive.                                       *)
(*                                                                         *)
(* A storage key is the pair <<prefix, suffix>>; the suffix is the uuidv4  *)
(* part, which never contains a prefix.  Time is counted in minutes; now   *)
(* is the minute the clock last showed, and time passes between reads. One *)
(* mutating call (save, delete or restore) is in flight at a time, a load  *)
(* (getExercises) runs beside it, and every await is one step, so a load   *)
(* can read the store between the steps of a move and the process can be   *)
(* killed between any two steps.  Every storage primitive may reject.      *)
(*                                                                         *)
(* screen is the state of the list screen (CBTListScreen, lines 235-324)   *)
(* and parked a second load it has in flight; they stay as they are in the *)
(* specifications of the store alone.                                      *)
(*                                                                         *)
(* returned is the settlement a call hands to its caller in the step that  *)
(* has just been taken (the caller's continuation is a microtask: it runs  *)
(* before any other storage event), so it is set by the step that ends a   *)
(* call and is gone after the next step.  origin is a history variable:    *)
(* for each suffix, the thought as it was stored under the thoughts key    *)
(* before an archive that ran to its end without a failure, for as long as *)
(* the archived copy stays as that archive wrote it.  The fields from,     *)
(* thought and failure of a call and of a settlement record what the call  *)
(* saw, for the properties below.                                          *)
(***************************************************************************)
EXTENDS Naturals, Integers, Sequences, FiniteSets, TLC

VARIABLES store, now, nextId, call, load, sweeps, returned, origin,
          screen, parked

vars == <<store, now, nextId, call, load, sweeps, returned, origin,
          screen, parked>>
\* the list screen: its state, and a second getExercises it has in flight
screenVars == <<screen, parked>>

----------------------------------------------------------------------------
(* Bounds of the model *)

\* uuidv4() is called at most MaxId times
MaxId == 1
\* the clock is read at the minutes 0..MaxTime
MaxTime == 1

----------------------------------------------------------------------------
(* Constants of the store *)

THOUGHTS_KEY_PREFIX == "@Quirk:thoughts:"
DELETED_KEY_PREFIX == "@Quirk:deleted-thoughts:"
EXPIRY_MINUTES == 7 * 24 * 60

\* the suffix of an entry that was in the store before the program ran
LegacySuffix == 0
Suffixes == {LegacySuffix} \cup (1..MaxId)
Prefixes == {THOUGHTS_KEY_PREFIX, DELETED_KEY_PREFIX}
EXISTING_USER_KEY == <<"@Quirk:existing-user", LegacySuffix>>
ThoughtKeys == Prefixes \X Suffixes
Keys == ThoughtKeys \cup {EXISTING_USER_KEY}
\* the order in which getAllKeys lists the keys
KeyOrder(k) ==
    IF k = EXISTING_USER_KEY THEN 1
    ELSE 2 + 2 * k[2] + (IF k[1] = THOUGHTS_KEY_PREFIX THEN 0 ELSE 1)
KeySeq == [i \in 1..Cardinality(Keys) |-> CHOOSE k \in Keys : KeyOrder(k) = i]

\* what the user can type into a thought
Payloads == {"p", "q"}

----------------------------------------------------------------------------
(* Values: JavaScript objects, and the strings AsyncStorage holds *)

Undefined == <<>>

\* a Date object, and the ISO string JSON makes of it
DateAt(t) == [type |-> "Date", t |-> t]
ToJSONDate(d) == [type |-> "string", t |-> d.t]
\* new Date(x) of a Date or of an ISO string: the time in minutes
NewDate(x) == x.t
\* Date.prototype.getMinutes: the minute of the hour
getMinutes(t) == t % 60

\* what the store holds under a key
Absent == [kind |-> "absent"]
NullValue == [kind |-> "null"]
Garbage == [kind |-> "garbage"]
Text(json) == [kind |-> "text", json |-> json]

\* String.prototype.startsWith and String.prototype.replace on a key
startsWith(key, prefix) == key[1] = prefix
replace(key, from, to) == IF key[1] = from THEN <<to, key[2]>> ELSE key

getThoughtKey(info) == <<THOUGHTS_KEY_PREFIX, info>>

\* json-stringify-safe: an object whose toJSON throws makes it throw, one
\* whose toJSON returns undefined yields undefined, a Date becomes a string
stringify(obj) ==
    IF obj.toJSON = "throws" THEN [kind |-> "throw"]
    ELSE IF obj.toJSON = "undefined" THEN [kind |-> "undefined"]
    ELSE Text([uuid |-> obj.uuid,
               createdAt |-> ToJSONDate(obj.createdAt),
               updatedAt |-> ToJSONDate(obj.updatedAt),
               payload |-> obj.payload])

\* a parse that gave an object for whatever it was handed
JSONparseLenient(v) ==
    [threw |-> FALSE, isNull |-> FALSE,
     value |-> IF v.kind = "text"
               THEN [uuid |-> v.json.uuid, createdAt |-> v.json.createdAt,
                     updatedAt |-> v.json.updatedAt, payload |-> v.json.payload,
                     toJSON |-> "default"]
               ELSE [uuid |-> Undefined, createdAt |-> ToJSONDate(DateAt(0)),
                     updatedAt |-> ToJSONDate(DateAt(0)), payload |-> "p",
                     toJSON |-> "default"]]
\* JSON.parse of what getItem or multiGet gave: null parses to null, a
\* string that is no JSON throws
JSONparse(v) ==
    IF v.kind = "text"
    THEN [threw |-> FALSE, isNull |-> FALSE,
          value |-> [uuid |-> v.json.uuid, createdAt |-> v.json.createdAt,
                     updatedAt |-> v.json.updatedAt, payload |-> v.json.payload,
                     toJSON |-> "default"]]
    ELSE IF v.kind = "garbage"
    THEN [threw |-> TRUE, isNull |-> FALSE, value |-> Undefined]
    ELSE [threw |-> FALSE, isNull |-> TRUE, value |-> Undefined]

----------------------------------------------------------------------------
(* The mutating calls: saveExercise, deleteExercise, restoreExercise *)

ToJSONs == {"default", "undefined", "throws"}

NoThought == [uuid |-> Undefined]
\* op: the call in flight; pc: the primitive it awaits; uuid: the key it was
\* called with; from: the object the thought was made from (the argument of
\* saveExercise, or what a move parsed); thought: the thought in memory;
\* failure: the first step of the call that failed
Idle == [op |-> "idle", pc |-> "idle", uuid |-> Undefined, from |-> NoThought,
         thought |-> NoThought, failure |-> "none"]
NoReturn == [fn |-> "none"]

\* what a storage primitive does: it resolves or it rejects
Outcomes == {"ok", "reject"}

\* the catch blocks: each logs the error and lets the call resolve
saveThoughtCatch(saveableThought) ==
    [outcome |-> "resolved", value |-> saveableThought]
\* a catch of deleteExercise that rethrew the error
deleteExerciseRethrow == [outcome |-> "rejected", value |-> Undefined]
deleteExerciseCatch == [outcome |-> "resolved", value |-> Undefined]
restoreExerciseCatch == [outcome |-> "resolved", value |-> Undefined]

MoveCatch(op) ==
    IF op = "deleteExercise" THEN deleteExerciseCatch ELSE restoreExerciseCatch

\* the call c ends: its promise settles with res
Complete(c, failure, res) ==
    /\ call' = Idle
    /\ returned' = [fn |-> c.op, uuid |-> c.uuid, outcome |-> res.outcome,
                    value |-> res.value, from |-> c.from, thought |-> c.thought,
                    failure |-> failure,
                    origin |-> IF c.op = "restoreExercise"
                               THEN origin[c.uuid[2]] ELSE NoThought]

\* saveThought of the call c has settled with res; a move goes on to
\* .then(() => AsyncStorage.removeItem(uuid)), which runs only if it resolved
AfterSaveThought(c, failure, res) ==
    IF c.op = "saveExercise"
    THEN Complete(c, failure, res)
    ELSE IF res.outcome = "resolved"
    THEN /\ call' = [c EXCEPT !.pc = "removeItem", !.failure = failure]
         /\ returned' = NoReturn
    ELSE Complete(c, failure, MoveCatch(c.op))

\* a saveThought without the guard on thoughtString
NothingToSaveUnchecked(thoughtString) == FALSE
\* !thoughtString || thoughtString.length <= 0
NothingToSave(thoughtString) == thoughtString.kind = "undefined"

\* saveThought up to its await: the thought of the call c is stringified
\* and, unless that gave nothing, setItem is issued
saveThought(c) ==
    LET saveableThought == c.thought
        thoughtString == stringify(saveableThought)
    IN
    IF thoughtString.kind = "throw"
    THEN AfterSaveThought(c, "stringify", saveThoughtCatch(saveableThought))
    ELSE IF NothingToSave(thoughtString)
    THEN AfterSaveThought(c, "stringify",
                          [outcome |-> "resolved", value |-> saveableThought])
    ELSE /\ call' = [c EXCEPT !.pc = "setItem"]
         /\ returned' = NoReturn

\* the thoughts the form can hand to saveExercise: a new one, or a stored
\* one of the list, edited
InputThoughts ==
    {[uuid |-> Undefined, payload |-> p, toJSON |-> tj] :
        p \in Payloads, tj \in ToJSONs}
    \cup {[JSONparse(store[k]).value EXCEPT !.payload = p, !.toJSON = tj] :
            k \in {x \in Keys : startsWith(x, THOUGHTS_KEY_PREFIX)
                                  /\ store[x].kind = "text"},
            p \in Payloads, tj \in ToJSONs}

\* new Date(): the clock is read, and it never runs backwards
Clock == now..MaxTime

\* a saveExercise that stamped createdAt on every save
saveableOfRestamped(thought, t) ==
    [uuid |-> IF thought.uuid = Undefined THEN getThoughtKey(nextId) ELSE thought.uuid,
     createdAt |-> DateAt(t), updatedAt |-> DateAt(t),
     payload |-> thought.payload, toJSON |-> thought.toJSON]
\* saveExercise up to its call of saveThought, at the minute t
saveableOf(thought, t) ==
    LET isSavedThought == thought.uuid = Undefined IN
    IF isSavedThought
    THEN [uuid |-> getThoughtKey(nextId), createdAt |-> DateAt(t),
          updatedAt |-> DateAt(t), payload |-> thought.payload,
          toJSON |-> thought.toJSON]
    ELSE [thought EXCEPT !.updatedAt = DateAt(t)]

saveExercise(thought, t) ==
    /\ call.op = "idle"
    /\ thought.uuid = Undefined => nextId <= MaxId
    /\ nextId' = IF thought.uuid = Undefined THEN nextId + 1 ELSE nextId
    /\ now' = t
    /\ saveThought([op |-> "saveExercise", pc |-> "idle",
                    uuid |-> saveableOf(thought, t).uuid, from |-> thought,
                    thought |-> saveableOf(thought, t), failure |-> "none"])
    /\ UNCHANGED <<store, load, sweeps, origin>>

\* the keys the list screen can pass to a move: those of the thoughts that
\* were saved, and those the store holds
ListedKeys == {k \in ThoughtKeys : k[2] \in 1..(nextId - 1) \/ store[k] # Absent}

deleteExercise(uuid) ==
    /\ call.op = "idle"
    /\ call' = [Idle EXCEPT !.op = "deleteExercise", !.pc = "getItem", !.uuid = uuid]
    /\ returned' = NoReturn
    /\ UNCHANGED <<store, now, nextId, load, sweeps, origin>>

restoreExercise(uuid) ==
    /\ call.op = "idle"
    /\ call' = [Idle EXCEPT !.op = "restoreExercise", !.pc = "getItem", !.uuid = uuid]
    /\ returned' = NoReturn
    /\ UNCHANGED <<store, now, nextId, load, sweeps, origin>>

\* the key a move writes the thought under
deleteKey(uuid) == replace(uuid, THOUGHTS_KEY_PREFIX, DELETED_KEY_PREFIX)
restoreKey(uuid) == replace(uuid, DELETED_KEY_PREFIX, THOUGHTS_KEY_PREFIX)

\* deleteExercise archives a thought of the thoughts namespace and deletes
\* any other for good
IsArchive(c) ==
    c.op = "deleteExercise" /\ startsWith(c.uuid, THOUGHTS_KEY_PREFIX)
IsPermanentDelete(c) ==
    c.op = "deleteExercise" /\ ~startsWith(c.uuid, THOUGHTS_KEY_PREFIX)

\* a move that stamped createdAt as well
touchAll(thought, t) ==
    [thought EXCEPT !.updatedAt = DateAt(t), !.createdAt = DateAt(t)]
\* thought.updatedAt = new Date() of a move
touch(thought, t) == [thought EXCEPT !.updatedAt = DateAt(t)]

\* await AsyncStorage.getItem(uuid) of a move settles, and the move runs on
\* to its next await
GetItemDone(outcome, t) ==
    /\ call.pc = "getItem"
    /\ LET parsed == JSONparse(store[call.uuid])
           thought == touch(parsed.value, t)
           c == [call EXCEPT !.from = parsed.value]
       IN
       IF outcome = "reject"
       THEN Complete(call, "getItem", MoveCatch(call.op)) /\ now' = now
       ELSE IF parsed.threw \/ parsed.isNull
       THEN Complete(call, "parse", MoveCatch(call.op)) /\ now' = now
       ELSE /\ now' = t
            /\ IF IsArchive(call)
               THEN saveThought([c EXCEPT
                        !.thought = [thought EXCEPT !.uuid = deleteKey(call.uuid)]])
               ELSE IF IsPermanentDelete(call)
               THEN /\ call' = [c EXCEPT !.pc = "removeItem", !.thought = thought]
                    /\ returned' = NoReturn
               ELSE saveThought([c EXCEPT
                        !.thought = [thought EXCEPT !.uuid = restoreKey(call.uuid)]])
    /\ UNCHANGED <<store, nextId, load, sweeps, origin>>

\* a saveThought that wrote under the key its caller was given
setItemKeyOfCall(c) == c.uuid
\* the key saveThought writes under: saveableThought.uuid
setItemKey(c) == c.thought.uuid

\* await AsyncStorage.setItem(saveableThought.uuid, thoughtString) settles
SetItemDone(outcome) ==
    /\ call.pc = "setItem"
    /\ IF outcome = "ok"
       THEN /\ store' = [store EXCEPT ![setItemKey(call)] = stringify(call.thought)]
            /\ origin' = IF startsWith(setItemKey(call), DELETED_KEY_PREFIX)
                         THEN [origin EXCEPT ![setItemKey(call)[2]] = NoThought]
                         ELSE origin
            /\ AfterSaveThought(call, "none",
                                [outcome |-> "resolved", value |-> call.thought])
       ELSE /\ UNCHANGED <<store, origin>>
            /\ AfterSaveThought(call, "setItem", saveThoughtCatch(call.thought))
    /\ UNCHANGED <<now, nextId, load, sweeps>>

\* a removeItem that removed nothing
removeItemNothing(s, uuid) == s
\* AsyncStorage.removeItem(uuid) on the store s
removeItem(s, uuid) == [s EXCEPT ![uuid] = Absent]

\* what origin keeps of a thought: the fields a move must not change
OriginOf(json) ==
    [uuid |-> json.uuid, createdAt |-> json.createdAt, payload |-> json.payload]

\* await AsyncStorage.removeItem(uuid) settles and the move ends
RemoveItemDone(outcome) ==
    /\ call.pc = "removeItem"
    /\ IF outcome = "ok"
       THEN /\ store' = removeItem(store, call.uuid)
            /\ origin' = [origin EXCEPT ![call.uuid[2]] =
                            IF IsArchive(call) /\ call.failure = "none"
                            THEN OriginOf(call.from)
                            ELSE IF startsWith(call.uuid, DELETED_KEY_PREFIX)
                            THEN NoThought ELSE @]
            /\ Complete(call, call.failure,
                        [outcome |-> "resolved", value |-> Undefined])
       ELSE /\ UNCHANGED <<store, origin>>
            /\ Complete(call,
                        IF call.failure = "none" THEN "removeItem" ELSE call.failure,
                        MoveCatch(call.op))
    /\ UNCHANGED <<now, nextId, load, sweeps>>

----------------------------------------------------------------------------
(* getExercises *)

LoadIdle == [pc |-> "idle", keys |-> <<>>]
EmptyResult == [savedThoughts |-> <<>>, deletedThoughts |-> <<>>]

getExercisesCatch == [outcome |-> "resolved", value |-> EmptyResult]

\* AsyncStorage.getAllKeys(): the keys that hold something
getAllKeys(s) == SelectSeq(KeySeq, LAMBDA k : s[k] # Absent)

\* the filter of the keys getExercises asks for
IsThoughtKey(key) ==
    startsWith(key, THOUGHTS_KEY_PREFIX) \/ startsWith(key, DELETED_KEY_PREFIX)

\* AsyncStorage.multiGet(keys): [key, value] rows, the value null when the
\* key holds nothing
multiGet(s, keys) ==
    [i \in 1..Len(keys) |->
        <<keys[i], IF s[keys[i]] = Absent THEN NullValue ELSE s[keys[i]]>>]

\* rows.filter(n => n && n[1])
Truthy(n) == n[2].kind \in {"text", "garbage"}

isExpired(date, at) == getMinutes(at) - getMinutes(date) > EXPIRY_MINUTES

\* a forEach that pushed every row to savedThoughts
ForEachRowAllSaved(acc, x, at) ==
    IF acc.threw THEN acc
    ELSE IF JSONparse(x[2]).threw THEN [acc EXCEPT !.threw = TRUE]
    ELSE [acc EXCEPT !.savedThoughts = Append(@, JSONparse(x[2]).value)]
\* one turn of rows.forEach: the row is parsed and pushed to its list
ForEachRow(acc, x, at) ==
    LET key == x[1]
        parsed == JSONparse(x[2])
        value == parsed.value
    IN
    IF acc.threw THEN acc
    ELSE IF parsed.threw THEN [acc EXCEPT !.threw = TRUE]
    ELSE IF startsWith(key, THOUGHTS_KEY_PREFIX)
    THEN [acc EXCEPT !.savedThoughts = Append(@, value)]
    ELSE IF isExpired(NewDate(value.updatedAt), at)
    THEN [acc EXCEPT !.outdated = Append(@, key)]
    ELSE [acc EXCEPT !.deletedThoughts = Append(@, value)]

RECURSIVE ForEach(_, _, _)
ForEach(rows, i, at) ==
    IF i = 0
    THEN [threw |-> FALSE, savedThoughts |-> <<>>, deletedThoughts |-> <<>>,
          outdated |-> <<>>]
    ELSE ForEachRow(ForEach(rows, i - 1, at), rows[i], at)

\* getExercises from the rows multiGet gave up to its return
ProcessRows(rows, at) ==
    LET kept == SelectSeq(rows, Truthy) IN ForEach(kept, Len(kept), at)

getExercises ==
    /\ load.pc = "idle"
    /\ load' = [pc |-> "getAllKeys", keys |-> <<>>]
    /\ returned' = NoReturn
    /\ UNCHANGED <<store, now, nextId, call, sweeps, origin>>

\* getExercises ends: its promise settles with res; rows is what multiGet
\* gave it at the minute at, outdated what it handed to multiRemove
LoadReturn(res, failure, rows, at, outdated) ==
    /\ load' = LoadIdle
    /\ returned' = [fn |-> "getExercises", outcome |-> res.outcome,
                    value |-> res.value, failure |-> failure,
                    rows |-> rows, at |-> at, outdated |-> outdated]

\* await AsyncStorage.getAllKeys() settles; multiGet is issued
GetAllKeysDone(outcome) ==
    /\ load.pc = "getAllKeys"
    /\ IF outcome = "reject"
       THEN LoadReturn(getExercisesCatch, "getAllKeys", <<>>, now, <<>>)
       ELSE /\ load' = [pc |-> "multiGet",
                        keys |-> SelectSeq(getAllKeys(store), IsThoughtKey)]
            /\ returned' = NoReturn
    /\ UNCHANGED <<store, now, nextId, call, sweeps, origin>>

\* await AsyncStorage.multiGet(keys) settles (or gives nothing), the rows
\* are sorted into the two lists, multiRemove is issued and not awaited
MultiGetDone(outcome, t) ==
    /\ load.pc = "multiGet"
    /\ LET rows == IF outcome = "ok" THEN multiGet(store, load.keys) ELSE <<>>
           done == ProcessRows(rows, t)
       IN
       IF outcome = "reject"
       THEN /\ LoadReturn(getExercisesCatch, "multiGet", <<>>, now, <<>>)
            /\ UNCHANGED <<sweeps, now>>
       ELSE IF done.threw
       THEN /\ LoadReturn(getExercisesCatch, "parse", rows, t, <<>>)
            /\ sweeps' = sweeps
            /\ now' = t
       ELSE /\ LoadReturn([outcome |-> "resolved",
                           value |-> [savedThoughts |-> done.savedThoughts,
                                      deletedThoughts |-> done.deletedThoughts]],
                          "none", rows, t, done.outdated)
            /\ sweeps' = sweeps \cup {done.outdated}
            /\ now' = t
    /\ UNCHANGED <<store, nextId, call, origin>>

\* the multiRemove a load left behind settles; nobody waits for it
MultiRemoveDone(keys, outcome) ==
    /\ keys \in sweeps
    /\ sweeps' = sweeps \ {keys}
    /\ store' = IF outcome = "ok"
                THEN [k \in Keys |->
                        IF \E i \in DOMAIN keys : keys[i] = k THEN Absent ELSE store[k]]
                ELSE store
    /\ returned' = NoReturn
    /\ UNCHANGED <<now, nextId, call, load, origin>>

----------------------------------------------------------------------------
(* The environment *)

\* this.state of the list screen as its constructor sets it; mounted tells
\* whether componentDidMount has run, failure what the load whose result was
\* set last ran into
InitialState ==
    [mounted |-> FALSE, groups |-> {}, deletedGroups |-> {}, failure |-> "unset"]

\* the process is killed: what is in memory and in flight is gone, the
\* store stays
Crash ==
    /\ call # Idle \/ load # LoadIdle
    /\ call' = Idle
    /\ load' = LoadIdle
    /\ sweeps' = {}
    /\ returned' = NoReturn
    /\ UNCHANGED <<store, now, nextId, origin>>

----------------------------------------------------------------------------
(* The list screen: CBTListScreen *)

\* the calendar day of a time in minutes
MinutesPerDay == 24 * 60
Day(t) == t \div MinutesPerDay

\* fixTimestamps: { createdAt, updatedAt, ...json }; the spread comes last,
\* so a field json has is the one that stays
fixTimestamps(json) ==
    LET dates == [createdAt |-> DateAt(NewDate(json.createdAt)),
                  updatedAt |-> DateAt(NewDate(json.updatedAt))]
    IN [f \in DOMAIN dates \cup DOMAIN json |->
            IF f \in DOMAIN json THEN json[f] ELSE dates[f]]

\* groupThoughtsByDay: one group for each day on which a thought was
\* created, with the thoughts of that day in the order they came in
groupThoughtsByDay(thoughts) ==
    {[date |-> d,
      thoughts |-> SelectSeq(thoughts, LAMBDA x : Day(NewDate(x.createdAt)) = d)] :
        d \in {Day(NewDate(thoughts[i].createdAt)) : i \in DOMAIN thoughts}}

\* validThoughtGroup: the group has a thought, and its thoughts have a uuid
validThoughtGroup(group) ==
    /\ Len(group.thoughts) > 0
    /\ \A i \in DOMAIN group.thoughts : group.thoughts[i].uuid # Undefined

\* getThoughtGroup of loadExercises
getThoughtGroup(storedThoughts) ==
    LET kept == SelectSeq(storedThoughts, LAMBDA n : n # Undefined)
        thoughts == [i \in DOMAIN kept |-> fixTimestamps(kept[i])]
    IN {g \in groupThoughtsByDay(thoughts) : validThoughtGroup(g)}

\* the thoughts the screen shows in a list
Shown(groups) == UNION {{g.thoughts[i] : i \in DOMAIN g.thoughts} : g \in groups}

\* componentDidMount: this.loadExercises()
componentDidMount ==
    /\ ~screen.mounted
    /\ getExercises
    /\ screen' = [screen EXCEPT !.mounted = TRUE]
    /\ parked' = parked

\* onItemDelete, from either list: deleteExercise(thought.uuid)
onItemDelete(thought) ==
    /\ screen.mounted
    /\ deleteExercise(thought.uuid)
    /\ UNCHANGED screenVars

\* onItemRestore, from the archive list: restoreExercise(thought.uuid)
onItemRestore(thought) ==
    /\ screen.mounted
    /\ restoreExercise(thought.uuid)
    /\ UNCHANGED screenVars

\* .then(() => this.loadExercises()) of onItemDelete and onItemRestore: when
\* the move settles in this step, getExercises is called; the load it starts
\* takes the free place beside the load that may be in flight
thenLoadExercises ==
    /\ screen' = screen
    /\ IF returned'.fn \in {"deleteExercise", "restoreExercise"}
       THEN /\ parked.pc = "idle"
            /\ parked' = [pc |-> "getAllKeys", keys |-> <<>>]
       ELSE parked' = parked

\* .then(data => ... this.setState(...)) of loadExercises: when the load
\* settles in this step, its two lists are grouped and set
thenSetState ==
    /\ parked' = parked
    /\ screen' = IF returned'.fn = "getExercises"
                 THEN [screen EXCEPT
                        !.groups = getThoughtGroup(returned'.value.savedThoughts),
                        !.deletedGroups = getThoughtGroup(returned'.value.deletedThoughts),
                        !.failure = returned'.failure]
                 ELSE screen

\* of the two loads in flight, the other one is the next to settle
SwapLoads ==
    /\ parked.pc # "idle"
    /\ load # parked
    /\ load' = parked
    /\ parked' = load
    /\ returned' = NoReturn
    /\ UNCHANGED <<store, now, nextId, call, sweeps, origin, screen>>

----------------------------------------------------------------------------
(* Specifications *)

InitMemory ==
    /\ now = 0
    /\ nextId = 1
    /\ call = Idle
    /\ load = LoadIdle
    /\ sweeps = {}
    /\ returned = NoReturn
    /\ origin = [i \in Suffixes |-> NoThought]
    /\ screen = InitialState
    /\ parked = LoadIdle

\* the store of an existing user before the first thought is saved
EmptyStore ==
    [k \in Keys |-> IF k = EXISTING_USER_KEY THEN Text(TRUE) ELSE Absent]

Init ==
    /\ store = EmptyStore
    /\ InitMemory

ActiveKey(id) == <<THOUGHTS_KEY_PREFIX, id>>
ArchivedKey(id) == <<DELETED_KEY_PREFIX, id>>

\* the same store with damaged entries under the two legacy keys: a null
\* value, or a string that is no JSON
InitCorrupt ==
    /\ \E damage \in {<<NullValue, Garbage>>, <<Garbage, NullValue>>,
                       <<NullValue, NullValue>>} :
          store = [EmptyStore EXCEPT ![ActiveKey(LegacySuffix)] = damage[1],
                                     ![ArchivedKey(LegacySuffix)] = damage[2]]
    /\ InitMemory

\* the store after thoughts were saved and archived in the minutes
\* 0..MaxTime: every suffix is archived or gone
ArchivedText(id, c, u, p) ==
    Text([uuid |-> ArchivedKey(id), createdAt |-> ToJSONDate(DateAt(c)),
          updatedAt |-> ToJSONDate(DateAt(u)), payload |-> p])

InitExpiry ==
    /\ \E f \in [1..MaxId -> {<<>>} \cup {<<c, u, p>> \in (0..MaxTime) \X (0..MaxTime) \X Payloads :
                                            c <= u}] :
          store = [k \in Keys |->
                    IF startsWith(k, DELETED_KEY_PREFIX) /\ k[2] \in 1..MaxId
                       /\ f[k[2]] # <<>>
                    THEN ArchivedText(k[2], f[k[2]][1], f[k[2]][2], f[k[2]][3])
                    ELSE EmptyStore[k]]
    /\ now = MaxTime
    /\ nextId = MaxId + 1
    /\ call = Idle
    /\ load = LoadIdle
    /\ sweeps = {}
    /\ returned = NoReturn
    /\ origin = [i \in Suffixes |-> NoThought]
    /\ screen = InitialState
    /\ parked = LoadIdle

Next ==
    \/ \E thought \in InputThoughts, t \in Clock : saveExercise(thought, t)
        /\ UNCHANGED screenVars
    \/ \E uuid \in ListedKeys : deleteExercise(uuid)
        /\ UNCHANGED screenVars
    \/ \E uuid \in ListedKeys : restoreExercise(uuid)
        /\ UNCHANGED screenVars
    \/ \E outcome \in Outcomes, t \in Clock : GetItemDone(outcome, t)
        /\ UNCHANGED screenVars
    \/ \E outcome \in Outcomes : SetItemDone(outcome)
        /\ UNCHANGED screenVars
    \/ \E outcome \in Outcomes : RemoveItemDone(outcome)
        /\ UNCHANGED screenVars
    \/ getExercises
        /\ UNCHANGED screenVars
    \/ \E outcome \in Outcomes : GetAllKeysDone(outcome)
        /\ UNCHANGED screenVars
    \/ \E outcome \in Outcomes \cup {"nothing"}, t \in Clock : MultiGetDone(outcome, t)
        /\ UNCHANGED screenVars
    \/ \E keys \in sweeps, outcome \in Outcomes : MultiRemoveDone(keys, outcome)
        /\ UNCHANGED screenVars
    \/ Crash
        /\ UNCHANGED screenVars

Spec == Init /\ [][Next]_vars

SpecCorrupt == InitCorrupt /\ [][Next]_vars

\* the minutes at which a thought archived in 0..MaxTime is just short of,
\* and just past, the retention period
LateClock ==
    {t \in {u + EXPIRY_MINUTES + d : u \in 0..MaxTime, d \in {0 - 1, 1}} : t >= now}

\* loads of the archive, days later
NextExpiry ==
    \/ getExercises
        /\ UNCHANGED screenVars
    \/ \E outcome \in Outcomes : GetAllKeysDone(outcome)
        /\ UNCHANGED screenVars
    \/ \E outcome \in Outcomes \cup {"nothing"}, t \in LateClock : MultiGetDone(outcome, t)
        /\ UNCHANGED screenVars
    \/ \E keys \in sweeps, outcome \in Outcomes : MultiRemoveDone(keys, outcome)
        /\ UNCHANGED screenVars
    \/ Crash
        /\ UNCHANGED screenVars

SpecExpiry == InitExpiry /\ [][NextExpiry]_vars

\* loads keep being issued, and the primitives of a load and the multiRemove
\* it leaves behind resolve in the end
ExpiryFairness ==
    /\ WF_vars(getExercises /\ UNCHANGED screenVars)
    /\ SF_vars(GetAllKeysDone("ok") /\ UNCHANGED screenVars)
    /\ SF_vars(\E t \in LateClock : MultiGetDone("ok", t) /\ UNCHANGED screenVars)
    /\ SF_vars(\E keys \in sweeps :
                MultiRemoveDone(keys, "ok") /\ UNCHANGED screenVars)

SpecExpiryFair == InitExpiry /\ [][NextExpiry]_vars /\ ExpiryFairness

\* a thought saved at the minute 0
SavedText(key) ==
    Text([uuid |-> key, createdAt |-> ToJSONDate(DateAt(0)),
          updatedAt |-> ToJSONDate(DateAt(0)), payload |-> "p"])

\* the list screen opens, at the minute MaxTime, on a store in which every
\* suffix has a thought, under its thoughts key or its deleted-thoughts key
InitScreen ==
    /\ \E prefix \in [Suffixes -> Prefixes] :
          store = [k \in Keys |->
                    IF k \in ThoughtKeys /\ prefix[k[2]] = k[1]
                    THEN SavedText(k) ELSE EmptyStore[k]]
    /\ now = MaxTime
    /\ nextId = MaxId + 1
    /\ call = Idle
    /\ load = LoadIdle
    /\ sweeps = {}
    /\ returned = NoReturn
    /\ origin = [i \in Suffixes |-> NoThought]
    /\ screen = InitialState
    /\ parked = LoadIdle

\* the taps on the list screen and the storage events that follow them, when
\* every storage primitive resolves
NextScreen ==
    \/ componentDidMount
    \/ \E thought \in Shown(screen.groups) \cup Shown(screen.deletedGroups) :
            onItemDelete(thought)
    \/ \E thought \in Shown(screen.deletedGroups) : onItemRestore(thought)
    \/ \E t \in Clock : GetItemDone("ok", t)
        /\ thenLoadExercises
    \/ SetItemDone("ok")
        /\ thenLoadExercises
    \/ RemoveItemDone("ok")
        /\ thenLoadExercises
    \/ GetAllKeysDone("ok")
        /\ thenSetState
    \/ \E t \in Clock : MultiGetDone("ok", t)
        /\ thenSetState
    \/ \E keys \in sweeps : MultiRemoveDone(keys, "ok")
        /\ UNCHANGED screenVars
    \/ SwapLoads

SpecScreen == InitScreen /\ [][NextScreen]_vars

----------------------------------------------------------------------------
(* Properties *)

Range(seq) == {seq[i] : i \in DOMAIN seq}
Moves == {"deleteExercise", "restoreExercise"}
HoldsThought(s, k) == s[k].kind = "text"

\* c (a call or a settlement) is a move between the two namespaces: an
\* archive of a thoughts key or a restore of a deleted-thoughts key
IsRestore(c) == c.op = "restoreExercise" /\ startsWith(c.uuid, DELETED_KEY_PREFIX)
IsMove(c) == IsArchive(c) \/ IsRestore(c)
AsCall(r) == [op |-> r.fn, uuid |-> r.uuid]

\* what a load of the store s at the minute t returns when no primitive fails
LoadOf(s, t) ==
    ProcessRows(multiGet(s, SelectSeq(getAllKeys(s), IsThoughtKey)), t)

\* C1: in every state of a move that has read its thought, during the move
\* and when it has ended, the thought is stored under its thoughts key or
\* under its deleted-thoughts key
C1_NeverAbsentFromBoth ==
    /\ (IsMove(call) /\ call.pc \in {"setItem", "removeItem"})
        => (HoldsThought(store, ActiveKey(call.uuid[2]))
            \/ HoldsThought(store, ArchivedKey(call.uuid[2])))
    /\ (returned.fn \in Moves /\ IsMove(AsCall(returned))
            /\ returned.from # NoThought)
        => (HoldsThought(store, ActiveKey(returned.uuid[2]))
            \/ HoldsThought(store, ArchivedKey(returned.uuid[2])))

\* the thoughts of the rows that hold JSON, under the keys of one prefix
ValidThoughts(rows, prefix) ==
    LET valid == SelectSeq(rows, LAMBDA x : x[2].kind = "text"
                                            /\ startsWith(x[1], prefix))
    IN [i \in 1..Len(valid) |-> JSONparse(valid[i][2]).value]

\* C2: a load whose getAllKeys and multiGet did not fail resolves with
\* exactly the thoughts of the rows that hold JSON, each in its own list,
\* whatever null or unparsable rows came with them
C2_LoadReturnsValidRecords ==
    (returned.fn = "getExercises"
        /\ returned.failure \notin {"getAllKeys", "multiGet"})
    => /\ returned.outcome = "resolved"
       /\ returned.value.savedThoughts
            = ValidThoughts(returned.rows, THOUGHTS_KEY_PREFIX)
       /\ returned.value.deletedThoughts
            = ValidThoughts(returned.rows, DELETED_KEY_PREFIX)

\* C3: of the archived thoughts a load read, one updated EXPIRY_MINUTES - 1
\* minutes before the load is returned and its key kept, one updated
\* EXPIRY_MINUTES + 1 minutes before is not returned and its key is handed
\* to multiRemove
C3_ExpiryBoundary ==
    (returned.fn = "getExercises" /\ returned.failure = "none")
    => \A i \in DOMAIN returned.rows :
        LET key == returned.rows[i][1]
            value == JSONparse(returned.rows[i][2]).value
            age == returned.at - NewDate(value.updatedAt)
        IN (startsWith(key, DELETED_KEY_PREFIX) /\ returned.rows[i][2].kind = "text")
           => /\ age = EXPIRY_MINUTES - 1
                    => /\ value \in Range(returned.value.deletedThoughts)
                       /\ key \notin Range(returned.outdated)
              /\ age = EXPIRY_MINUTES + 1
                    => /\ value \notin Range(returned.value.deletedThoughts)
                       /\ key \in Range(returned.outdated)

\* C4: when a restore of a deleted-thoughts key ends without a failure and
\* the archived copy it read came from an archive that ended without a
\* failure, the thought is stored under the thoughts key it was archived
\* from, with the createdAt and the payload it had there, and nothing is
\* stored under the deleted-thoughts key
C4_ArchiveRestoreInverse ==
    (returned.fn = "restoreExercise" /\ IsRestore(AsCall(returned))
        /\ returned.failure = "none" /\ returned.origin # NoThought)
    => LET id == returned.uuid[2]
           o == returned.origin
       IN /\ o.uuid = ActiveKey(id)
          /\ HoldsThought(store, ActiveKey(id))
          /\ OriginOf(store[ActiveKey(id)].json) = o
          /\ store[ArchivedKey(id)] = Absent

C4_Witness ==
    /\ returned.fn = "restoreExercise"
    /\ IsRestore(AsCall(returned))
    /\ returned.failure = "none"
    /\ returned.origin # NoThought
    /\ returned.thought.updatedAt.t > NewDate(returned.thought.createdAt)

\* no thought with the identifier uuid is in either list of a load of s
NotLoaded(s, uuid) ==
    \A t \in Clock :
        LET done == LoadOf(s, t) IN
        \A x \in Range(done.savedThoughts) \cup Range(done.deletedThoughts) :
            x.uuid # uuid

C6_NoDuplicateSuffix ==
    returned.fn = "getExercises"
    => \A x \in Range(returned.value.savedThoughts),
          y \in Range(returned.value.deletedThoughts) : x.uuid[2] # y.uuid[2]

\* C7: every call resolves, whatever primitive failed: saveExercise with the
\* thought it held in memory, a move with nothing, getExercises with its two
\* lists
C7_NoCallRejects ==
    returned.fn # "none"
    => /\ returned.outcome = "resolved"
       /\ returned.fn = "saveExercise" => returned.value = returned.thought
       /\ returned.fn \in Moves => returned.value = Undefined
       /\ returned.fn = "getExercises"
            => /\ DOMAIN returned.value = {"savedThoughts", "deletedThoughts"}
               /\ returned.failure # "none" => returned.value = EmptyResult

C7_Witness ==
    /\ returned.fn = "deleteExercise"
    /\ returned.failure = "removeItem"
    /\ returned.outcome = "resolved"

\* C8: every thoughts or deleted-thoughts key that holds something holds a
\* thought whose uuid is that key
C8_KeyStateAgreement ==
    \A k \in ThoughtKeys :
        store[k] # Absent => (HoldsThought(store, k) /\ store[k].json.uuid = k)

C8_Witness ==
    \E id \in 1..MaxId :
        /\ HoldsThought(store, ArchivedKey(id))
        /\ HoldsThought(store, ActiveKey(id))
        /\ returned.fn = "restoreExercise"

C10_NoWriteWithoutText ==
    [][ (call.op = "idle"
            /\ \/ returned'.fn = "saveExercise"
               \/ (call'.op = "saveExercise"
                    /\ stringify(call'.thought).kind # "text"))
        => /\ store' = store
           /\ call' = Idle
           /\ returned'.fn = "saveExercise"
           /\ returned'.outcome = "resolved"
           /\ returned'.value = returned'.thought
           /\ returned'.thought.payload = returned'.from.payload
           /\ stringify(returned'.thought).kind # "text" ]_vars

C10_Witness ==
    /\ returned.fn = "saveExercise"
    /\ returned.failure = "stringify"
    /\ returned.from.toJSON = "undefined"
    /\ returned.from.uuid # Undefined
    /\ HoldsThought(store, returned.from.uuid)

\* C11: a move awaits removeItem only when its write succeeded, and a move
\* whose write failed ends with the old key still holding the thought
C11_RemoveOnlyAfterWrite ==
    /\ (IsMove(call) /\ call.pc = "removeItem") => call.failure = "none"
    /\ (returned.fn \in Moves /\ IsMove(AsCall(returned))
            /\ returned.failure \in {"stringify", "setItem"})
        => HoldsThought(store, returned.uuid)

\* the namespaces in which the store s holds something under the suffix id
NamespaceState(s, id) ==
    IF s[ActiveKey(id)] # Absent
    THEN IF s[ArchivedKey(id)] # Absent THEN "both" ELSE "ACTIVE"
    ELSE IF s[ArchivedKey(id)] # Absent THEN "ARCHIVED" ELSE "none"

\* create, archive, restore, permanent delete and expiry; a move passes
\* through "both" between its write and its removal
LifecycleEdges ==
    {<<"none", "ACTIVE">>,
     <<"ACTIVE", "both">>, <<"both", "ARCHIVED">>,
     <<"ARCHIVED", "both">>, <<"both", "ACTIVE">>,
     <<"ARCHIVED", "none">>}

\* C12: every step leaves the namespace state of every suffix as it is or
\* changes it along an edge of the lifecycle
C12_LifecycleEdges ==
    [][ \A id \in Suffixes :
            \/ NamespaceState(store', id) = NamespaceState(store, id)
            \/ <<NamespaceState(store, id), NamespaceState(store', id)>>
                    \in LifecycleEdges ]_vars

\* C13: when the getItem of a deleteExercise or restoreExercise settles on a
\* key that holds nothing, null or a string that is no JSON, the call ends
\* there: it resolves with nothing, no setItem or removeItem is issued, and
\* every key holds what it held
C13_MoveOfNothingAborts ==
    [][ (call.pc = "getItem" /\ store[call.uuid].kind # "text" /\ call' # call)
        => /\ store' = store
           /\ call' = Idle
           /\ \/ returned' = NoReturn
              \/ /\ returned'.fn = call.op
                 /\ returned'.outcome = "resolved"
                 /\ returned'.value = Undefined
                 /\ returned'.failure \in {"getItem", "parse"} ]_vars

C13_Witness ==
    /\ returned.fn = "restoreExercise"
    /\ returned.failure = "parse"
    /\ store[returned.uuid] = Garbage
    /\ \E k \in ThoughtKeys : HoldsThought(store, k)

\* C14: when a deleteExercise of a thoughts key that held a thought has
\* ended, the thought is stored, with the createdAt and the payload it had,
\* under its thoughts key or its deleted-thoughts key, and if nothing failed
\* it is under the deleted-thoughts key and the thoughts key holds nothing;
\* and a deleteExercise awaits removeItem without having written the thought
\* only when its key is outside the thoughts namespace
C14_ArchiveKeepsTheThought ==
    /\ (returned.fn = "deleteExercise" /\ IsArchive(AsCall(returned))
            /\ returned.from # NoThought)
        => LET id == returned.uuid[2] IN
           /\ \E k \in {ActiveKey(id), ArchivedKey(id)} :
                /\ HoldsThought(store, k)
                /\ store[k].json.payload = returned.from.payload
                /\ store[k].json.createdAt = returned.from.createdAt
           /\ returned.failure = "none"
                => /\ HoldsThought(store, ArchivedKey(id))
                   /\ store[ActiveKey(id)] = Absent
    /\ (call.op = "deleteExercise" /\ call.pc = "removeItem"
            /\ call.failure # "none")
        => IsPermanentDelete(call)

\* the thoughts of the rows under the keys of one prefix
RowsOf(rows, prefix) ==
    {JSONparse(rows[i][2]).value :
        i \in {j \in DOMAIN rows : startsWith(rows[j][1], prefix)
                                    /\ rows[j][2].kind = "text"}}

\* C15: a load asks multiGet for thoughts and deleted-thoughts keys only and
\* no step changes what the existing-user key holds; when a load ends without
\* a failure, the rows it was given are those of the keys it asked for (or
\* none, when multiGet resolved with nothing), savedThoughts holds the
\* thoughts of the rows under thoughts keys and nothing else, and
\* deletedThoughts holds thoughts of rows under deleted-thoughts keys only,
\* among them every one updated no more than EXPIRY_MINUTES before the load
C15_PartitionByNamespace ==
    /\ [](\A k \in Range(load.keys) :
            startsWith(k, THOUGHTS_KEY_PREFIX) \/ startsWith(k, DELETED_KEY_PREFIX))
    /\ [][ store'[EXISTING_USER_KEY] = store[EXISTING_USER_KEY] ]_vars
    /\ [][ (load.pc = "multiGet" /\ returned'.fn = "getExercises"
                /\ returned'.failure = "none")
            => LET rows == returned'.rows
                   res == returned'.value
               IN /\ rows \in {<<>>, multiGet(store, load.keys)}
                  /\ \A k \in Range(returned'.outdated) :
                        startsWith(k, DELETED_KEY_PREFIX)
                  /\ Range(res.savedThoughts) = RowsOf(rows, THOUGHTS_KEY_PREFIX)
                  /\ Range(res.deletedThoughts) \subseteq RowsOf(rows, DELETED_KEY_PREFIX)
                  /\ \A x \in RowsOf(rows, DELETED_KEY_PREFIX) :
                        returned'.at - NewDate(x.updatedAt) <= EXPIRY_MINUTES
                            => x \in Range(res.deletedThoughts) ]_vars

C15_Witness ==
    /\ returned.fn = "getExercises"
    /\ returned.failure = "none"
    /\ Len(returned.value.savedThoughts) > 0
    /\ Len(returned.value.deletedThoughts) > 0
    /\ Len(returned.rows) = 2

\* C16: a step of a load changes the store only by removing deleted-thoughts
\* keys that a load handed to multiRemove; and when a load has ended without
\* a failure, the keys it handed to multiRemove are deleted-thoughts keys,
\* none of them the key of a thought it returned, and no thought it returned
\* in deletedThoughts was updated more than EXPIRY_MINUTES before the load
C16_LoadFrame ==
    /\ [][ (load.pc # "idle" \/ sweeps # {})
            => \A k \in Keys :
                store'[k] # store[k]
                => /\ store'[k] = Absent
                   /\ startsWith(k, DELETED_KEY_PREFIX)
                   /\ \E keys \in sweeps : k \in Range(keys) ]_vars
    /\ []( (returned.fn = "getExercises" /\ returned.failure = "none")
            => /\ \A k \in Range(returned.outdated) :
                    /\ startsWith(k, DELETED_KEY_PREFIX)
                    /\ \A x \in Range(returned.value.deletedThoughts) : x.uuid # k
               /\ \A x \in Range(returned.value.deletedThoughts) :
                    returned.at - NewDate(x.updatedAt) <= EXPIRY_MINUTES )

\* C17: an archived thought that was updated more than EXPIRY_MINUTES ago is
\* removed from the store in the end
C17_ExpiryCarriedOut ==
    \A k \in ThoughtKeys :
        []( ( /\ startsWith(k, DELETED_KEY_PREFIX)
              /\ HoldsThought(store, k)
              /\ now - NewDate(store[k].json.updatedAt) > EXPIRY_MINUTES )
            => <>(store[k] = Absent) )

\* C18: when a restoreExercise of a key that held a thought, in either
\* namespace, has ended without a failure, the thought is stored under the
\* thoughts key of its suffix
C18_RestoreKeepsTheThought ==
    (returned.fn = "restoreExercise" /\ returned.failure = "none"
        /\ returned.from # NoThought)
    => LET k == ActiveKey(returned.uuid[2]) IN
       /\ HoldsThought(store, k)
       /\ store[k].json.payload = returned.from.payload

\* the number of loads in flight
LoadsInFlight ==
    (IF load.pc = "idle" THEN 0 ELSE 1) + (IF parked.pc = "idle" THEN 0 ELSE 1)

\* C19: a load is started only by componentDidMount or in the step in which
\* a move settles; and when the screen is mounted, no move and no load is in
\* flight and the load whose result was set last did not fail, the groups and
\* deletedGroups of the screen are those of a load of the store as it is
C19_ScreenConverges ==
    /\ [][ LoadsInFlight' > LoadsInFlight
            => \/ ~screen.mounted /\ screen'.mounted
               \/ returned'.fn \in Moves /\ call' = Idle ]_vars
    /\ []( (screen.mounted /\ call = Idle /\ load = LoadIdle /\ parked = LoadIdle
                /\ screen.failure = "none")
            => LET final == LoadOf(store, now) IN
               /\ screen.groups = getThoughtGroup(final.savedThoughts)
               /\ screen.deletedGroups = getThoughtGroup(final.deletedThoughts) )

====
